---- MODULE Spec2Model ----
(***************************************************************************)
(* Model of pkg/sql/session.go: the session registry (CancelQuery,         *)
(* CancelSession, SerializeAll), the session-trace reduction               *)
(* (generateSessionTraceVTable and getMessagesForSubtrace), the            *)
(* SessionTracing controller and the schema-change runner                  *)
(* (schemaChangerCollection.execSchemaChanges).                            *)
(*                                                                         *)
(* Each component has its own specification over the shared variables:     *)
(* SpecRegistry, SpecSerialize, SpecReduce, SpecTracing, SpecThreads,      *)
(* SpecSchema and, with fairness, SpecSchemaLive.  Spec is their           *)
(* interleaving.                                                           *)
(***************************************************************************)
EXTENDS Integers, Sequences, FiniteSets, TLC

VARIABLES
    \* ---- SessionRegistry (session.go:141-231)
    store,          \* r.store: a function from the registered ids to sessions
    activeQueries,  \* per session: the query ids its cancelQuery reports found
    regOp,          \* the last registry call (or session event) and its arguments
    regRet,         \* what that call returned: [ok, err]
    regCalls,       \* the capability calls that call made on sessions, in order
    mu,             \* the registry's mutex: "free" or the operation holding it
    ser,            \* SerializeAll in progress: pc, the ids visited, response
    \* ---- reduction (session.go:564-713)
    spans,          \* the input []tracing.RecordedSpan
    redPc,          \* "input" while the input is assembled, "done" once reduced
    redRes,         \* the value generateSessionTraceVTable returned
    \* ---- SessionTracing (session.go:345-490) and what it is tied to
    st,             \* the SessionTracing fields
    ex,             \* the connExecutor: txnState, txnSpan (span of state.Ctx),
                    \* connCtxSpan (span of ctxHolder.connCtx), hijacked
    tracer,         \* the tracer's spans, in the order they were started
    clock,          \* the current time
    stOp,           \* the last call on the controller (or session event)
    stRet,          \* what that call returned: [err, rows]
    thr,            \* the session's thread inside StartTracing or StopTracing
                    \* taken statement by statement: pc, its locals, and the
                    \* cycle numbers of st.enabled, st.connSpan, st.lastRecording
    rd,             \* another thread inside getRecording: pc and what it read
    \* ---- schemaChangerCollection (session.go:251-307)
    scc,            \* the collection: its field schemaChangers, a queue of jobs
    scRun,          \* the run of execSchemaChanges: pc, the loop index idx,
                    \* the parity of the retry rounds, firstError, the number
                    \* of the run, the jobs queued so far
    scLog,          \* the calls of sc.exec made so far: [job, outcome, run]
                    \* (of a long run of retries, the first ones: see exec)
    scRet           \* what the last run of execSchemaChanges returned

regVars == <<store, activeQueries, regOp, regRet, regCalls, mu, ser>>
redVars == <<spans, redPc, redRes>>
trVars == <<st, ex, tracer, clock, stOp, stRet>>
thrVars == <<thr, rd>>
scVars == <<scc, scRun, scLog, scRet>>
vars == <<store, activeQueries, regOp, regRet, regCalls, mu, ser, spans, redPc, redRes,
          st, ex, tracer, clock, stOp, stRet, thr, rd, scc, scRun, scLog, scRet>>

\* ---------------------------------------------------------------------------
\* Bounds of the model.
\* Reduction inputs come in two families (see InputOk): inputs of up to
\* MaxSpans spans with logs, durations and timestamps 1..MaxTime, and deeper
\* forests of up to MaxDeepSpans bare spans with timestamps 1..MaxDeepTime.
MaxSpans == 3       \* spans in an input with logs
MaxTime == 3        \* timestamps are 1..MaxTime
MaxLogs == 2        \* log entries in one input
MaxFinished == 1    \* spans with a nonzero duration in one input
MaxDeepSpans == 4   \* spans in an input without logs
MaxDeepTime == 2    \* start times of an input without logs
NumSessions == 3    \* sessions that may register
MaxSessionId == 2   \* session ids
MaxQueryId == 2     \* query ids
MaxTracerSpans == 3 \* spans the tracer starts in one session
MaxTracerLogs == 1  \* log entries recorded in one session
MaxClock == 2       \* the clock runs from 1 to MaxClock
MaxJobs == 3        \* schema changers queued in one session
MaxAttempts == 2    \* attempts of one schema changer kept in the log
MaxRuns == 3        \* runs of execSchemaChanges in one session

\* ---------------------------------------------------------------------------
\* Helpers on sequences.
Range(s) == {s[k] : k \in 1..Len(s)}

RECURSIVE SumLens(_)
SumLens(ss) == IF ss = <<>> THEN 0 ELSE Len(Head(ss)) + SumLens(Tail(ss))

\* ===========================================================================
\* The reduction: generateSessionTraceVTable and its helpers.
\* ===========================================================================

\* The sentinel time of the merge loop ("year 6000"); every timestamp of the
\* model lies before it.
maxTime == 6000

\* The datums of a cell: tree.DNull, a DInterval of so many nanoseconds, a
\* DString holding an operation name.
DNull == <<"null">>
DInterval(nanos) == <<"interval", nanos>>
DString(s) == <<"string", s>>

\* The errors of the reduction: nil, or errors.Errorf("duplicate span %d", id).
NoErr == [kind |-> "nil", id |-> 0]

\* A plausible slip: a span met a second time is passed over without an
\* error, as the first loop of generateSessionTraceVTable does.
DuplicateSpanSkipped(id) == NoErr
DuplicateSpan(id) == [kind |-> "duplicate span", id |-> id]

\* A message text: a fixed prefix and the part that varies.
Text(prefix, body) == [prefix |-> prefix, body |-> body]

\* A log message is kept in the three parts logMessageRE splits it into
\* (location, tag, text).  The expression matches every string (each part is
\* optional and the last is .* under the s flag), so the split never fails.
Msg(loc, tag, text) == [location |-> loc, tag |-> tag, message |-> text]

\* fmt.Sprintf("=== SPAN START: %s ===", op): no location, no tag.
spanStartMsg(op) == Msg("", "", Text("=== SPAN START: ", op))

\* extractMsgFromRecord: the value of the first "event" field, or the value of
\* the first "error" field prefixed by "error:", whichever comes first.
RECURSIVE extractMsgFromRecord(_)
extractMsgFromRecord(fields) ==
    IF fields = <<>> THEN Msg("", "", Text("<event missing in trace message>", 0))
    ELSE IF Head(fields).Key = "event" THEN Head(fields).Value
    ELSE IF Head(fields).Key = "error"
         THEN [Head(fields).Value EXCEPT !.message.prefix = "error:"]
    ELSE extractMsgFromRecord(Tail(fields))

\* A plausible slip: the children are collected in reverse input order.
getOrderedChildSpansReversed(spanID, allSpans) ==
    LET RECURSIVE scan(_)
        scan(i) == IF i > Len(allSpans) THEN <<>>
                   ELSE IF allSpans[i].ParentSpanID = spanID
                        THEN scan(i + 1) \o <<i>>
                        ELSE scan(i + 1)
    IN scan(1)

\* getOrderedChildSpans: the indexes (1-based here) of the spans whose
\* ParentSpanID is spanID, in input order.
getOrderedChildSpans(spanID, allSpans) ==
    LET RECURSIVE scan(_)
        scan(i) == IF i > Len(allSpans) THEN <<>>
                   ELSE IF allSpans[i].ParentSpanID = spanID
                        THEN <<i>> \o scan(i + 1)
                        ELSE scan(i + 1)
    IN scan(1)

\* A logRecordRow: spanIdx is the span's position in the input (0-based as in
\* the code), index the message's number within its span.
logRecordRow(ts, msg, idx, index) ==
    [timestamp |-> ts, msg |-> msg, spanIdx |-> idx - 1, index |-> index]

\* A plausible slip: the loop stops as soon as either cursor is exhausted.
mergeContinuesBoth(i, nLogs, j, nChildren) == i < nLogs /\ j < nChildren

\* The condition of the merge loop (line 682): a log entry or a child is left.
mergeContinues(i, nLogs, j, nChildren) == i < nLogs \/ j < nChildren

\* A plausible slip: the logs are emitted first, the children after them.
takeLogWhileAny(logTime, childTime) == logTime < maxTime

\* A plausible slip: on equal timestamps the log entry is taken.
takeLogOnTie(logTime, childTime) == logTime <= childTime

\* The choice of the merge (line 692): logTime.Before(childTime) takes the
\* log entry, anything else (a tie included) takes the child.
takeLog(logTime, childTime) == logTime < childTime

\* getMessagesForSubtrace(span, allSpans, seenSpans) for the span at position
\* idx.  Returns [err, logs, seen]: err is NoErr or DuplicateSpan(id),
\* logs the rows (empty on error), seen the updated seenSpans.
\* mergeLoop is the for loop of lines 682-711 with its cursors i and j
\* (counting consumed logs and consumed children).
RECURSIVE getMessagesForSubtrace(_, _, _)
RECURSIVE mergeLoop(_, _, _, _, _, _, _)
mergeLoop(idx, allSpans, childSpans, i, j, allLogs, seen) ==
    LET span == allSpans[idx]
    IN IF ~mergeContinues(i, Len(span.Logs), j, Len(childSpans))
       THEN [err |-> NoErr, logs |-> allLogs, seen |-> seen]
       ELSE LET logTime == IF i < Len(span.Logs) THEN span.Logs[i + 1].Time ELSE maxTime
                childTime == IF j < Len(childSpans)
                             THEN allSpans[childSpans[j + 1]].StartTime ELSE maxTime
            IN IF takeLog(logTime, childTime)
               THEN mergeLoop(idx, allSpans, childSpans, i + 1, j,
                        Append(allLogs,
                               logRecordRow(logTime,
                                            extractMsgFromRecord(span.Logs[i + 1].Fields),
                                            idx, i + 1)),
                        seen)
               ELSE LET child == getMessagesForSubtrace(childSpans[j + 1], allSpans, seen)
                    IN IF child.err # NoErr
                       THEN [err |-> child.err, logs |-> <<>>, seen |-> child.seen]
                       ELSE mergeLoop(idx, allSpans, childSpans, i, j + 1,
                                      allLogs \o child.logs, child.seen)

getMessagesForSubtrace(idx, allSpans, seenSpans) ==
    LET span == allSpans[idx]
    IN IF span.SpanID \in seenSpans
       THEN [err |-> DuplicateSpan(span.SpanID), logs |-> <<>>, seen |-> seenSpans]
       ELSE mergeLoop(idx, allSpans,
                      getOrderedChildSpans(span.SpanID, allSpans), 0, 0,
                      <<logRecordRow(span.StartTime, spanStartMsg(span.Operation), idx, 0)>>,
                      seenSpans \cup {span.SpanID})

\* The first loop of generateSessionTraceVTable (lines 569-583): every span
\* not seen yet is the root of a subtrace; a seen one is skipped.
RECURSIVE collectAllLogs(_, _, _, _)
collectAllLogs(allSpans, spanIdx, seenSpans, allLogs) ==
    IF spanIdx > Len(allSpans) THEN [err |-> NoErr, logs |-> allLogs]
    ELSE IF allSpans[spanIdx].SpanID \in seenSpans
         THEN collectAllLogs(allSpans, spanIdx + 1, seenSpans, allLogs)
    ELSE LET sub == getMessagesForSubtrace(spanIdx, allSpans, seenSpans)
         IN IF sub.err # NoErr THEN [err |-> sub.err, logs |-> <<>>]
            ELSE collectAllLogs(allSpans, spanIdx + 1, sub.seen, allLogs \o sub.logs)

\* The second loop (lines 585-629): one traceRow per logRecordRow.
traceRow(lrr, allSpans) ==
    LET span == allSpans[lrr.spanIdx + 1]
    IN [span_idx    |-> lrr.spanIdx,
        message_idx |-> lrr.index,
        timestamp   |-> lrr.timestamp,
        duration    |-> IF lrr.index = 0 /\ span.Duration # 0
                        THEN DInterval(span.Duration) ELSE DNull,
        operation   |-> IF lrr.index = 0 THEN DString(span.Operation) ELSE DNull,
        location    |-> lrr.msg.location,
        tag         |-> lrr.msg.tag,
        message     |-> lrr.msg.message]

\* generateSessionTraceVTable: [err, rows]; rows is empty (nil) on error.
generateSessionTraceVTable(allSpans) ==
    LET all == collectAllLogs(allSpans, 1, {}, <<>>)
    IN IF all.err # NoErr THEN [err |-> all.err, rows |-> <<>>]
       ELSE [err |-> NoErr,
             rows |-> [k \in 1..Len(all.logs) |-> traceRow(all.logs[k], allSpans)]]

\* ---------------------------------------------------------------------------
\* The reduction's inputs: sequences of recorded spans.  Span ids and parent
\* ids are free (duplicates, absent parents and cycles included) and so is the
\* order of the spans; the log entries of one span are in chronological order
\* and not earlier than the span's start, as the tracer records them.
ParentIds == 0..MaxDeepSpans
Times == 1..MaxTime
Durations == {0, 1}

RecordedSpan(id, parent, start, dur) ==
    [SpanID |-> id, ParentSpanID |-> parent, StartTime |-> start,
     Duration |-> dur, Operation |-> id, Logs |-> <<>>]

LogRecord(t, n) ==
    [Time |-> t, Fields |-> <<[Key |-> "event", Value |-> Msg("loc", "tag", Text("", n))]>>]

TotalLogs(ss) == SumLens([k \in 1..Len(ss) |-> ss[k].Logs])
Finished(ss) == Cardinality({k \in 1..Len(ss) : ss[k].Duration # 0})

\* The inputs the model enumerates.
TimedInput(ss) ==
    /\ Len(ss) <= MaxSpans
    /\ \A k \in 1..Len(ss) : ss[k].SpanID <= MaxSpans /\ ss[k].ParentSpanID <= MaxSpans
    /\ TotalLogs(ss) <= MaxLogs
    /\ Finished(ss) <= MaxFinished
DeepInput(ss) ==
    /\ Len(ss) <= MaxDeepSpans
    /\ \A k \in 1..Len(ss) :
           ss[k].StartTime <= MaxDeepTime /\ ss[k].Duration = 0 /\ ss[k].Logs = <<>>
InputOk(ss) == TimedInput(ss) \/ DeepInput(ss)

\* The largest span id of the input so far (0 for the empty input).
RECURSIVE MaxIdUsed(_)
MaxIdUsed(ss) ==
    IF ss = <<>> THEN 0
    ELSE LET m == MaxIdUsed(Tail(ss))
         IN IF Head(ss).SpanID > m THEN Head(ss).SpanID ELSE m

ReduceInit ==
    /\ spans = <<>>
    /\ redPc = "input"
    /\ redRes = [err |-> NoErr, rows |-> <<>>]

\* The tracer records a span: it is appended to the input.  The code only
\* compares span ids for equality, so ids are numbered in order of first
\* appearance: a span repeats an id of the input or takes the next unused one.
\* The guards keep the input within InputOk.
AddSpan(id, parent, start, dur) ==
    /\ redPc = "input"
    /\ \/ /\ Len(spans) < MaxSpans
          /\ id <= MaxSpans
          /\ parent <= MaxSpans
          /\ dur # 0 => Finished(spans) < MaxFinished
          /\ TimedInput(spans)
       \/ /\ Len(spans) < MaxDeepSpans
          /\ start <= MaxDeepTime
          /\ dur = 0
          /\ DeepInput(spans)
    /\ spans' = Append(spans, RecordedSpan(id, parent, start, dur))
    /\ UNCHANGED <<redPc, redRes>>

\* The span recorded last logs an entry at time t.
AddLog(t) ==
    /\ redPc = "input"
    /\ spans # <<>>
    /\ TotalLogs(spans) < MaxLogs
    /\ TimedInput(spans)
    /\ LET n == Len(spans)
           logs == spans[n].Logs
       IN /\ t >= spans[n].StartTime
          /\ logs # <<>> => t >= logs[Len(logs)].Time
          /\ spans' = [spans EXCEPT ![n].Logs = Append(logs, LogRecord(t, Len(logs) + 1))]
    /\ UNCHANGED <<redPc, redRes>>

\* generateSessionTraceVTable(spans) is called.
Reduce ==
    /\ redPc = "input"
    /\ redRes' = generateSessionTraceVTable(spans)
    /\ redPc' = "done"
    /\ UNCHANGED spans

\* The input grows by one span or one log entry while it is being assembled.
RecordSpan ==
    /\ redPc = "input"
    /\ Len(spans) < MaxDeepSpans
    /\ \E id \in 1..(MaxIdUsed(spans) + 1), parent \in ParentIds,
          start \in Times, dur \in Durations :
           AddSpan(id, parent, start, dur)

RecordLog ==
    /\ redPc = "input"
    /\ \E t \in Times : AddLog(t)

ReduceNext == RecordSpan \/ RecordLog \/ Reduce

\* ---------------------------------------------------------------------------
\* Vocabulary of the reduction's properties.
Reduced == redPc = "done"
Succeeded == Reduced /\ redRes.err = NoErr
NumRows == Len(redRes.rows)

\* Two spans of the input share a span id.
HasDuplicateIds(ss) ==
    \E a, b \in 1..Len(ss) : a # b /\ ss[a].SpanID = ss[b].SpanID

\* The positions of the spans that name span p as their parent, and the
\* positions of the subtree of span c (c and everything below it).
ChildrenOf(ss, p) == {c \in 1..Len(ss) : ss[c].ParentSpanID = ss[p].SpanID}
RECURSIVE Below(_, _)
Below(ss, S) ==
    LET more == S \cup UNION {ChildrenOf(ss, x) : x \in S}
    IN IF more = S THEN S ELSE Below(ss, more)
SubtreeOf(ss, c) == Below(ss, {c})

\* The output positions of the rows of the spans at the positions S, and of
\* the own log rows (message index above 0) of span p.
RowsOf(S) == {k \in 1..NumRows : redRes.rows[k].span_idx + 1 \in S}
LogRowsOf(p) == {k \in RowsOf({p}) : redRes.rows[k].message_idx > 0}
Contiguous(K) == \A k \in 1..NumRows :
    (\E lo \in K : lo < k) /\ (\E hi \in K : k < hi) => k \in K

\* ---------------------------------------------------------------------------
\* C5.  Duplicate span ids in the input always make the reduction fail,
\* wherever the duplicate sits (a root, a sibling, another subtree).
C5_DuplicateIdsAlwaysFail ==
    (Reduced /\ HasDuplicateIds(spans)) => redRes.err # NoErr

\* ---------------------------------------------------------------------------
\* C6 as stated.  For two spans with the same parent, every row of the
\* subtree of the earlier-starting one precedes every row of the subtree of
\* the later-starting one.
Siblings(ss, a, b) ==
    /\ a # b
    /\ \E p \in 1..Len(ss) : a \in ChildrenOf(ss, p) /\ b \in ChildrenOf(ss, p)
BlockBefore(a, b) ==
    \A ra \in RowsOf(SubtreeOf(spans, a)), rb \in RowsOf(SubtreeOf(spans, b)) : ra < rb
BlockPlaced(p, c) ==
    LET block == RowsOf(SubtreeOf(spans, c))
    IN /\ Contiguous(block)
       /\ \A l \in LogRowsOf(p), r \in block :
            /\ redRes.rows[l].timestamp < spans[c].StartTime => l < r
            /\ redRes.rows[l].timestamp > spans[c].StartTime => r < l
ListedInStartOrder(ss, c) ==
    \A s \in 1..Len(ss) :
        (s < c /\ ss[s].ParentSpanID = ss[c].ParentSpanID)
            => ss[s].StartTime <= ss[c].StartTime
RowsWellFormed ==
    \A k \in 1..NumRows :
        LET row == redRes.rows[k]
            span == spans[row.span_idx + 1]
        IN /\ (\A e \in RowsOf({row.span_idx + 1}) : k <= e) =>
                /\ row.message_idx = 0
                /\ row.timestamp = span.StartTime
                /\ row.message = spanStartMsg(span.Operation).message
           /\ row.operation # DNull <=> row.message_idx = 0
           /\ row.message_idx = 0 => row.operation = DString(span.Operation)
           /\ row.duration # DNull <=> (row.message_idx = 0 /\ span.Duration # 0)
HasStartRow(c) == \E k \in RowsOf({c}) : redRes.rows[k].message_idx = 0
C8_StartRowOfEverySpan ==
    Succeeded =>
        /\ RowsWellFormed
        /\ \A c \in 1..Len(spans) : spans[c].Logs = <<>> => HasStartRow(c)

\* What does hold of every output: the rows are well formed, and every span
\* whose id no other span of the input has contributes its start row.
C8_StartRowOfEveryUniqueSpan ==
    Succeeded =>
        /\ RowsWellFormed
        /\ \A c \in 1..Len(spans) :
              (\A e \in 1..Len(spans) : e # c => spans[e].SpanID # spans[c].SpanID)
                  => HasStartRow(c)

\* ---------------------------------------------------------------------------
\* C9.  A successful reduction of an input with unique span ids holds exactly
\* one start row per span and one row per log entry, each span's rows in
\* message order after its start row; the rows of a span's subtree number
\* 1 + its own logs + the rows of its children's subtrees.
RECURSIVE SumRows(_)
SumRows(C) ==
    IF C = {} THEN 0
    ELSE LET c == CHOOSE x \in C : TRUE
         IN Cardinality(RowsOf(SubtreeOf(spans, c))) + SumRows(C \ {c})
LogRowOf(p, m) == {k \in RowsOf({p}) : redRes.rows[k].message_idx = m}
TiedWith(p, c) == {m \in 1..Len(spans[p].Logs) : spans[p].Logs[m].Time = spans[c].StartTime}
C24_TieTakesLogFirst ==
    Succeeded =>
        \A p, c \in 1..Len(spans) :
            c \in ChildrenOf(spans, p) =>
                \A m \in TiedWith(p, c) :
                    \A l \in LogRowOf(p, m), r \in RowsOf(SubtreeOf(spans, c)) : l < r

\* C24 amended.  On equal timestamps the merge takes the child: the rows of
\* the child's subtree come before the row of the log entry (for a child
\* that no sibling listed before it starts later than, as in C7).
C24_TieTakesChildFirst ==
    Succeeded =>
        \A p, c \in 1..Len(spans) :
            (c \in ChildrenOf(spans, p) /\ ListedInStartOrder(spans, c)) =>
                \A m \in TiedWith(p, c) :
                    \A l \in LogRowOf(p, m), r \in RowsOf(SubtreeOf(spans, c)) : r < l

\* Witness: a span with a log entry and a child, itself with a child, that
\* starts at the time of the log entry has been reduced to four rows.
C24_Witness ==
    /\ Succeeded /\ ~HasDuplicateIds(spans)
    /\ NumRows = 4
    /\ \E p, c \in 1..Len(spans) :
          /\ c \in ChildrenOf(spans, p)
          /\ TiedWith(p, c) # {}
          /\ Cardinality(SubtreeOf(spans, c)) = 2

\* ===========================================================================
\* The session registry: register, deregister, CancelQuery, CancelSession.
\* ===========================================================================

\* security.RootUser, and the other users of the model.
RootUser == "root"
Users == <<"alice", "bob", RootUser>>

\* The sessions that may register are 1..NumSessions; session s is owned by
\* Users[((s - 1) % 3) + 1]: session 1 by alice, 2 by bob, 3 by root.
Sessions == 1..NumSessions
user(session) == Users[((session - 1) % Len(Users)) + 1]

\* ClusterWideIDs: session ids are 1..MaxSessionId and query ids
\* 1..MaxQueryId; 0 is the zero ID, which names nothing.
SessionIds == 1..MaxSessionId
QueryIds == 1..MaxQueryId

\* The textual form of a query id, and a text that is no id.
WellFormedText(id) == [wellFormed |-> TRUE, id |-> id]
MalformedText == [wellFormed |-> FALSE, id |-> 0]
QueryTexts == {WellFormedText(q) : q \in QueryIds} \cup {MalformedText}

\* StringToClusterWideID as CancelQuery uses it (lines 175-178): an id and no
\* error for a well-formed text, the zero id and an error otherwise.
StringToClusterWideID(text) ==
    IF text.wellFormed THEN [id |-> text.id, err |-> FALSE]
    ELSE [id |-> 0, err |-> TRUE]

\* The byte form of a session id, and bytes that are no id.
WellFormedBytes(id) == [wellFormed |-> TRUE, id |-> id]
MalformedBytes == [wellFormed |-> FALSE, id |-> 0]
SessionBytes == {WellFormedBytes(i) : i \in SessionIds} \cup {MalformedBytes}

\* BytesToClusterWideID as CancelSession uses it (line 199): it returns an id
\* and nothing else, so it has no way to report bytes that are no id.  What
\* such bytes decode to is not fixed here: any id, the zero id included.
BytesToClusterWideID(bytes) ==
    IF bytes.wellFormed THEN {bytes.id} ELSE {0} \cup SessionIds

\* The values the cancel operations return.
NilErr == [kind |-> "nil", what |-> "", id |-> 0]
MalformedErr(what, id) == [kind |-> "malformed", what |-> what, id |-> id]
NotFoundErr(what, id) == [kind |-> "not found", what |-> what, id |-> id]
Ret(ok, err) == [ok |-> ok, err |-> err]
NoRet == Ret(FALSE, NilErr)

\* A capability call made on a session: cancelQuery(arg) with what it
\* reported, or cancelSession().
Call(session, op, arg, found) == [session |-> session, op |-> op, arg |-> arg, found |-> found]

\* session.cancelQuery(queryID): the session reports whether it found (and
\* cancelled) the query.
cancelQueryFound(aq, session, queryID) == queryID \in aq[session]

\* A plausible slip: every requester may act on every session.
authorizedAnyone(username, session) == TRUE

\* The authorization test of both cancel operations (lines 184 and 205).
authorized(username, session) ==
    username = RootUser \/ username = user(session)

\* The orders in which a range over the map r.store may visit the ids S: Go
\* fixes none, so every order is possible.
RECURSIVE Orders(_)
Orders(S) ==
    IF S = {} THEN {<<>>}
    ELSE UNION {{<<x>> \o o : o \in Orders(S \ {x})} : x \in S}

\* A plausible slip: the scan goes on after a session reported the query
\* found, and still returns success.
RECURSIVE scanQueriesNoStop(_, _, _, _, _, _)
scanQueriesNoStop(order, sessions, aq, queryID, username, calls) ==
    IF order = <<>>
    THEN IF \E k \in 1..Len(calls) : calls[k].found
         THEN [ret |-> Ret(TRUE, NilErr), calls |-> calls]
         ELSE [ret |-> Ret(FALSE, NotFoundErr("query ID", queryID)), calls |-> calls]
    ELSE LET session == sessions[Head(order)]
         IN IF ~authorized(username, session)
            THEN scanQueriesNoStop(Tail(order), sessions, aq, queryID, username, calls)
            ELSE scanQueriesNoStop(Tail(order), sessions, aq, queryID, username,
                     Append(calls, Call(session, "cancelQuery", queryID,
                                        cancelQueryFound(aq, session, queryID))))

\* The loop of CancelQuery (lines 183-194) over the ids in the given order.
RECURSIVE scanQueries(_, _, _, _, _, _)
scanQueries(order, sessions, aq, queryID, username, calls) ==
    IF order = <<>>
    THEN [ret |-> Ret(FALSE, NotFoundErr("query ID", queryID)), calls |-> calls]
    ELSE LET session == sessions[Head(order)]
         IN IF ~authorized(username, session)
            THEN scanQueries(Tail(order), sessions, aq, queryID, username, calls)
            ELSE IF cancelQueryFound(aq, session, queryID)
                 THEN [ret |-> Ret(TRUE, NilErr),
                       calls |-> Append(calls, Call(session, "cancelQuery", queryID, TRUE))]
                 ELSE scanQueries(Tail(order), sessions, aq, queryID, username,
                          Append(calls, Call(session, "cancelQuery", queryID, FALSE)))

\* CancelQuery(queryIDStr, username) on a registry holding sessions, whose range visits
\* the ids in the given order: [ret, calls].
cancelQuery(order, sessions, aq, queryIDStr, username) ==
    LET parsed == StringToClusterWideID(queryIDStr)
    IN IF parsed.err
       THEN [ret |-> Ret(FALSE, MalformedErr("query ID", parsed.id)), calls |-> <<>>]
       ELSE scanQueries(order, sessions, aq, parsed.id, username, <<>>)

\* A plausible slip: the id is compared before the requester is checked.
RECURSIVE scanSessionsIdFirst(_, _, _, _)
scanSessionsIdFirst(order, sessions, sessionID, username) ==
    IF order = <<>>
    THEN [ret |-> Ret(FALSE, NotFoundErr("session ID", sessionID)), calls |-> <<>>]
    ELSE IF Head(order) = sessionID
         THEN [ret |-> Ret(TRUE, NilErr),
               calls |-> <<Call(sessions[Head(order)], "cancelSession", 0, TRUE)>>]
         ELSE scanSessionsIdFirst(Tail(order), sessions, sessionID, username)

\* The loop of CancelSession (lines 204-216) over the ids in the given order.
RECURSIVE scanSessions(_, _, _, _)
scanSessions(order, sessions, sessionID, username) ==
    IF order = <<>>
    THEN [ret |-> Ret(FALSE, NotFoundErr("session ID", sessionID)), calls |-> <<>>]
    ELSE LET session == sessions[Head(order)]
         IN IF ~authorized(username, session)
            THEN scanSessions(Tail(order), sessions, sessionID, username)
            ELSE IF Head(order) = sessionID
                 THEN [ret |-> Ret(TRUE, NilErr),
                       calls |-> <<Call(session, "cancelSession", 0, TRUE)>>]
                 ELSE scanSessions(Tail(order), sessions, sessionID, username)

\* A plausible slip: the operation does not take the registry's lock.
LockNotTaken == TRUE

\* r.Lock(): the operation goes on once nobody holds the mutex; each of
\* register, deregister, CancelQuery and CancelSession unlocks before it
\* returns, so it is one step.
Lock == mu = "free"

\* session.serialize(): the wire-format record of the session.
serialize(session) == [session |-> session, username |-> user(session)]

RegistryInit ==
    /\ mu = "free"
    /\ ser = [pc |-> "idle", visited |-> {}, response |-> <<>>]
    /\ store = <<>>
    /\ activeQueries = [s \in Sessions |-> {}]
    /\ regOp = [op |-> "MakeSessionRegistry"]
    /\ regRet = NoRet
    /\ regCalls = <<>>

\* r.store[id] = s
register(id, s) ==
    /\ Lock
    /\ store' = [i \in DOMAIN store \cup {id} |-> IF i = id THEN s ELSE store[i]]
    /\ regOp' = [op |-> "register", id |-> id, session |-> s]
    /\ regRet' = NoRet
    /\ regCalls' = <<>>
    /\ UNCHANGED <<activeQueries, mu, ser>>

\* delete(r.store, id): no effect on the map when id is absent.
deregister(id) ==
    /\ Lock
    /\ store' = [i \in DOMAIN store \ {id} |-> store[i]]
    /\ regOp' = [op |-> "deregister", id |-> id]
    /\ regRet' = NoRet
    /\ regCalls' = <<>>
    /\ UNCHANGED <<activeQueries, mu, ser>>

\* A query of session s begins (it enters the session's active queries) or
\* ends (it finished, with or without having been cancelled).
queryBegins(s, q) ==
    /\ q \notin activeQueries[s]
    /\ activeQueries' = [activeQueries EXCEPT ![s] = @ \cup {q}]
    /\ regOp' = [op |-> "queryBegins", session |-> s, queryID |-> q]
    /\ regRet' = NoRet
    /\ regCalls' = <<>>
    /\ UNCHANGED <<store, mu, ser>>

queryEnds(s, q) ==
    /\ q \in activeQueries[s]
    /\ activeQueries' = [activeQueries EXCEPT ![s] = @ \ {q}]
    /\ regOp' = [op |-> "queryEnds", session |-> s, queryID |-> q]
    /\ regRet' = NoRet
    /\ regCalls' = <<>>
    /\ UNCHANGED <<store, mu, ser>>

\* CancelQuery(queryIDStr, username), under the registry's lock.
CancelQuery(queryIDStr, username) ==
    /\ Lock
    /\ \E order \in Orders(DOMAIN store) :
          LET r == cancelQuery(order, store, activeQueries, queryIDStr, username)
          IN /\ regRet' = r.ret
             /\ regCalls' = r.calls
    /\ regOp' = [op |-> "CancelQuery", queryIDStr |-> queryIDStr, username |-> username]
    /\ UNCHANGED <<store, activeQueries, mu, ser>>

\* CancelSession(sessionIDBytes, username), under the registry's lock.
CancelSession(sessionIDBytes, username) ==
    /\ Lock
    /\ \E sessionID \in BytesToClusterWideID(sessionIDBytes), order \in Orders(DOMAIN store) :
          LET r == scanSessions(order, store, sessionID, username)
          IN /\ regRet' = r.ret
             /\ regCalls' = r.calls
             /\ regOp' = [op |-> "CancelSession", sessionIDBytes |-> sessionIDBytes,
                          sessionID |-> sessionID, username |-> username]
    /\ UNCHANGED <<store, activeQueries, mu, ser>>

\* SerializeAll (lines 220-231) takes the lock and allocates the response.
SerializeAllLock ==
    /\ ser.pc = "idle"
    /\ Lock
    /\ mu' = "SerializeAll"
    /\ ser' = [pc |-> "range", visited |-> {}, response |-> <<>>]
    /\ regOp' = [op |-> "SerializeAll"]
    /\ regRet' = NoRet
    /\ regCalls' = <<>>
    /\ UNCHANGED <<store, activeQueries>>

\* One round of its range loop over r.store: an entry not visited yet, in
\* any order, is serialized and appended.
SerializeAllRange ==
    /\ ser.pc = "range"
    /\ \E id \in DOMAIN store \ ser.visited :
          /\ ser' = [ser EXCEPT !.visited = @ \cup {id},
                                !.response = Append(@, serialize(store[id]))]
          /\ regCalls' = Append(regCalls, Call(store[id], "serialize", 0, TRUE))
    /\ UNCHANGED <<store, activeQueries, regOp, regRet, mu>>

\* The loop is over: the deferred Unlock runs and the response is returned.
SerializeAllReturn ==
    /\ ser.pc = "range"
    /\ DOMAIN store \subseteq ser.visited
    /\ mu' = "free"
    /\ ser' = [ser EXCEPT !.pc = "idle"]
    /\ regOp' = [op |-> "SerializeAll returned"]
    /\ UNCHANGED <<store, activeQueries, regRet, regCalls>>

\* SerializeAll running while sessions come and go.
SerializeNext ==
    \/ \E id \in SessionIds, s \in Sessions : register(id, s)
    \/ \E id \in SessionIds : deregister(id)
    \/ SerializeAllLock
    \/ SerializeAllRange
    \/ SerializeAllReturn

RegistryNext ==
    \/ \E id \in SessionIds, s \in Sessions : register(id, s)
    \/ \E id \in SessionIds : deregister(id)
    \/ \E s \in Sessions, q \in QueryIds : queryBegins(s, q)
    \/ \E s \in Sessions, q \in QueryIds : queryEnds(s, q)
    \/ \E text \in QueryTexts, u \in Range(Users) : CancelQuery(text, u)
    \/ \E bytes \in SessionBytes, u \in Range(Users) : CancelSession(bytes, u)

\* ---------------------------------------------------------------------------
\* Vocabulary of the registry's properties.
LastOp(op) == regOp.op = op
Registered == {store[i] : i \in DOMAIN store}

\* The requester is neither the superuser nor the owner of the session.
Stranger(username, session) == username # RootUser /\ username # user(session)

\* The registry sessions with every entry of the session removed.
Without(sessions, session) == [i \in {j \in DOMAIN sessions : sessions[j] # session} |-> sessions[i]]

\* No capability of the session was invoked by the last call.
NotCalled(session) == \A k \in 1..Len(regCalls) : regCalls[k].session # session

\* ---------------------------------------------------------------------------
\* C1.  For CancelQuery and for CancelSession, a requester who is neither the
\* superuser nor the owner of a registered session gets the return value and
\* error the same request gets from a registry without that session, and no
\* capability of that session is invoked.
C1_StrangerSeesSessionAsAbsent ==
    \A session \in Registered :
        /\ (LastOp("CancelQuery") /\ Stranger(regOp.username, session)) =>
              /\ NotCalled(session)
              /\ \E o \in Orders(DOMAIN Without(store, session)) :
                    regRet = cancelQuery(o, Without(store, session), activeQueries,
                                         regOp.queryIDStr, regOp.username).ret
        /\ (LastOp("CancelSession") /\ Stranger(regOp.username, session)) =>
              /\ NotCalled(session)
              /\ \E o \in Orders(DOMAIN Without(store, session)) :
                    regRet = scanSessions(o, Without(store, session),
                                          regOp.sessionID, regOp.username).ret

\* Witness: a stranger asked to cancel a query that a registered session of
\* another user is running, next to a registered session of the stranger's own.
C1_Witness ==
    /\ LastOp("CancelQuery") /\ regOp.queryIDStr.wellFormed
    /\ \E theirs, own \in Registered :
          /\ Stranger(regOp.username, theirs)
          /\ regOp.username = user(own)
          /\ regOp.queryIDStr.id \in activeQueries[theirs]
    /\ regRet.err.kind = "not found"

\* The same for CancelSession: a stranger named the id of a registered session.
C1_WitnessCancelSession ==
    /\ LastOp("CancelSession")
    /\ regOp.sessionID \in DOMAIN store
    /\ Stranger(regOp.username, store[regOp.sessionID])
    /\ regRet.err.kind = "not found"

\* ---------------------------------------------------------------------------
\* C2.  CancelQuery with a well-formed query id returns (true, nil) exactly
\* when a registered session the requester may act on (any for the superuser,
\* otherwise the requester's own) reports the query found, and asks no session
\* after the first that reports found; otherwise it returns (false, not
\* found).
MayActOn(username) ==
    {session \in Registered : username = RootUser \/ username = user(session)}
C2_CancelQueryFirstFound ==
    (LastOp("CancelQuery") /\ regOp.queryIDStr.wellFormed) =>
        LET q == regOp.queryIDStr.id
            found == \E session \in MayActOn(regOp.username) : q \in activeQueries[session]
        IN /\ found => regRet = Ret(TRUE, NilErr)
           /\ ~found => regRet = Ret(FALSE, NotFoundErr("query ID", q))
           /\ \A k \in 1..Len(regCalls) :
                 /\ regCalls[k].op = "cancelQuery" /\ regCalls[k].arg = q
                 /\ regCalls[k].session \in MayActOn(regOp.username)
                 /\ regCalls[k].found <=> q \in activeQueries[regCalls[k].session]
                 /\ regCalls[k].found => k = Len(regCalls)
           /\ found => regCalls # <<>> /\ regCalls[Len(regCalls)].found

\* Witness: sessions of alice and of bob are registered, the query runs only
\* in bob's, and alice's request came back not found after asking her own.
C2_Witness ==
    /\ LastOp("CancelQuery") /\ regOp.queryIDStr.wellFormed
    /\ regOp.username = "alice"
    /\ Registered = {1, 2}
    /\ regOp.queryIDStr.id \in activeQueries[2] \ activeQueries[1]
    /\ regRet = Ret(FALSE, NotFoundErr("query ID", regOp.queryIDStr.id))
    /\ Len(regCalls) = 1

\* The other half of the example: the superuser's request succeeds there.
C2_WitnessSuperuser ==
    /\ LastOp("CancelQuery") /\ regOp.queryIDStr.wellFormed
    /\ regOp.username = RootUser
    /\ Registered = {1, 2}
    /\ regOp.queryIDStr.id \in activeQueries[2] \ activeQueries[1]
    /\ regRet = Ret(TRUE, NilErr)

\* ---------------------------------------------------------------------------
\* C3.  CancelSession(id, user) invokes cancelSession on at most one session,
\* the one registered under exactly that id, and only for the superuser or
\* that session's owner, then returning (true, nil); in every other case it
\* returns (false, not found) and invokes nothing.
C3_CancelSessionByIdAndOwner ==
    LastOp("CancelSession") =>
        LET id == regOp.sessionID
            allowed == /\ id \in DOMAIN store
                       /\ (regOp.username = RootUser \/ regOp.username = user(store[id]))
        IN /\ allowed => /\ regRet = Ret(TRUE, NilErr)
                         /\ regCalls = <<Call(store[id], "cancelSession", 0, TRUE)>>
           /\ ~allowed => /\ regRet = Ret(FALSE, NotFoundErr("session ID", id))
                          /\ regCalls = <<>>

\* Witness: an owner who is not the superuser cancelled their own session
\* while a session of another user was registered too.
C3_Witness ==
    /\ LastOp("CancelSession")
    /\ regOp.username # RootUser
    /\ regRet.ok
    /\ Len(regCalls) = 1
    /\ \E other \in Registered : Stranger(regOp.username, other)

\* ---------------------------------------------------------------------------
\* C4.  Both cancel operations reject a malformed identifier at once with a
\* malformed-input error, distinguishable from not found, without scanning
\* the registry and without invoking any session capability.
RejectedAsMalformed ==
    /\ ~regRet.ok
    /\ regRet.err.kind = "malformed"
    /\ regCalls = <<>>
C4_MalformedIdRejected ==
    /\ (LastOp("CancelQuery") /\ ~regOp.queryIDStr.wellFormed) => RejectedAsMalformed
    /\ (LastOp("CancelSession") /\ ~regOp.sessionIDBytes.wellFormed) => RejectedAsMalformed

\* What does hold: CancelQuery rejects a malformed text this way.
C4_MalformedTextRejected ==
    (LastOp("CancelQuery") /\ ~regOp.queryIDStr.wellFormed) => RejectedAsMalformed

\* ---------------------------------------------------------------------------
\* C17.  SerializeAll returns one record per session registered at one
\* instant, even with register and deregister running beside it: it holds
\* the lock from its first step to its return, what it has appended so far
\* is one record per entry visited of the registry as it is, and what it
\* returns is one record per entry of the registry as it is at the return,
\* never a mixture of the contents of different moments.
Listing(ids) ==
    {[k \in 1..Len(order) |-> serialize(store[order[k]])] : order \in Orders(ids)}
SerializeAllReturned == regOp.op = "SerializeAll returned"
OneIdPerSession(sessions) ==
    \A i, j \in DOMAIN sessions : sessions[i] = sessions[j] => i = j
C18_NoSessionUnderTwoIds == OneIdPerSession(store)

\* What does hold: register stores the session under the id, replacing the
\* session stored under it, and changes no other entry; deregister removes
\* the entry of the id and no other; no other operation changes the
\* registry; and every session stays under one id as long as no session is
\* registered under a second id while it is stored under a first.
C18_RegisterReplacesOneEntry ==
    [][/\ regOp'.op = "register" =>
             /\ DOMAIN store' = DOMAIN store \cup {regOp'.id}
             /\ store'[regOp'.id] = regOp'.session
             /\ \A i \in DOMAIN store \ {regOp'.id} : store'[i] = store[i]
             /\ (/\ OneIdPerSession(store)
                 /\ \A i \in DOMAIN store \ {regOp'.id} : store[i] # regOp'.session)
                    => OneIdPerSession(store')
       /\ regOp'.op = "deregister" =>
             /\ DOMAIN store' = DOMAIN store \ {regOp'.id}
             /\ \A i \in DOMAIN store' : store'[i] = store[i]
             /\ OneIdPerSession(store) => OneIdPerSession(store')
       /\ regOp'.op \notin {"register", "deregister"} => store' = store]_vars

\* ===========================================================================
\* The SessionTracing controller: StartTracing, StopTracing, getRecording.
\* ===========================================================================

\* A nil span reference.
NoSpan == [present |-> FALSE, id |-> 0]
SpanRef(id) == [present |-> TRUE, id |-> id]

\* tracing.RecordingType: the zero value and the two modes a caller asks for.
NoRecording == "NoRecording"
RecordingTypes == {"SnowballRecording", "SingleNodeRecording"}

\* The errors StartTracing, StopTracing and getRecording return.
TracingErr(kind) == [kind |-> kind, id |-> 0]
NoTxnSpanErr == TracingErr("no txn span for SessionTracing")
TracingRet(err, rows) == [err |-> err, rows |-> rows]

\* ---- The tracer.  A span reference is the position of the span in tracer.
\* A span of the tracer is its RecordedSpan together with isRecording and
\* group, the span on which the recording it belongs to was started (0: none).
TracerSpan(id, parent, start) ==
    [SpanID |-> id, ParentSpanID |-> parent, StartTime |-> start, Duration |-> 0,
     Operation |-> id, Logs |-> <<>>, isRecording |-> FALSE, group |-> 0]

\* The tracer draws the id of a new span at random, so it may equal the id of
\* an earlier span; ids are numbered in the order they first appear.
NewSpanIds(tr) == 1..(MaxIdUsed(tr) + 1)

\* tracer.StartSpan(..., ChildOf(parent), Recordable): the new span gets the
\* id drawn for it; a child of a recording span records into its parent's
\* group.
StartSpan(tr, id, parent, now) ==
    LET sp == TracerSpan(id, IF parent.present THEN tr[parent.id].SpanID ELSE 0, now)
    IN IF parent.present /\ tr[parent.id].isRecording
       THEN Append(tr, [sp EXCEPT !.isRecording = TRUE, !.group = tr[parent.id].group])
       ELSE Append(tr, sp)

\* tracing.StartRecording(sp, recType): sp starts a recording group of its own.
StartRecording(tr, sp) == [tr EXCEPT ![sp.id].isRecording = TRUE, ![sp.id].group = sp.id]

\* tracing.StopRecording(sp): sp stops recording; its children do not.
StopRecording(tr, sp) == [tr EXCEPT ![sp.id].isRecording = FALSE]

\* sp.Finish(): the span gets its duration, which is never zero.
Finish(tr, sp, now) == [tr EXCEPT ![sp.id].Duration = (now - tr[sp.id].StartTime) + 1]

\* tracing.GetRecording(sp): nothing for a span that is not recording, else
\* the spans of its group in the order they were started.
GetRecording(tr, sp) ==
    IF ~tr[sp.id].isRecording THEN <<>>
    ELSE LET RECURSIVE collect(_)
             collect(k) ==
                 IF k > Len(tr) THEN <<>>
                 ELSE IF tr[k].group = tr[sp.id].group
                      THEN <<[SpanID |-> tr[k].SpanID, ParentSpanID |-> tr[k].ParentSpanID,
                              StartTime |-> tr[k].StartTime, Duration |-> tr[k].Duration,
                              Operation |-> tr[k].Operation, Logs |-> tr[k].Logs]>>
                           \o collect(k + 1)
                      ELSE collect(k + 1)
         IN collect(1)

\* ---- The controller.
TracingInit ==
    /\ st = [enabled |-> FALSE, kvTracingEnabled |-> FALSE, recordingType |-> NoRecording,
             firstTxnSpan |-> NoSpan, connSpan |-> NoSpan, lastRecording |-> <<>>]
    /\ tracer = <<>>
    /\ ex = [txnState |-> "NoTxn", txnSpan |-> NoSpan, connCtxSpan |-> NoSpan,
             hijacked |-> NoSpan]
    /\ clock = 1
    /\ stOp = [op |-> "init"]
    /\ stRet = TracingRet(NoErr, <<>>)

\* The spans getRecording and StopTracing collect (lines 381-385, 458-465).
collectSpans(tr, tracing) ==
    (IF tracing.firstTxnSpan.present THEN GetRecording(tr, tracing.firstTxnSpan) ELSE <<>>)
        \o GetRecording(tr, tracing.connSpan)

\* What a call of StartTracing or StopTracing is remembered by: its arguments
\* and ctx, the call it made on st.ex.ctxHolder ("hijack", line 444;
\* "unhijack", line 470; "none" when it returned before that line).
StartTracingCall(recType, kvTracingEnabled, ctx) ==
    [op |-> "StartTracing", recType |-> recType, kv |-> kvTracingEnabled, ctx |-> ctx]
StopTracingCall(ctx) == [op |-> "StopTracing", ctx |-> ctx]

\* A plausible slip: StartTracing without its test of st.enabled.
StartTracingUnguarded(recType, kvTracingEnabled) ==
    /\ ex.txnState = "NoTxn" \/ ex.txnSpan.present
    /\ Len(tracer) < MaxTracerSpans
    /\ LET inTxn == ex.txnState # "NoTxn"
           tr1 == IF inTxn THEN StartRecording(tracer, ex.txnSpan) ELSE tracer
           sp == SpanRef(Len(tr1) + 1)
       IN /\ \E id \in NewSpanIds(tr1) :
                tracer' = StartRecording(StartSpan(tr1, id, ex.connCtxSpan, clock), sp)
          /\ st' = [st EXCEPT !.firstTxnSpan = IF inTxn THEN ex.txnSpan ELSE @,
                              !.enabled = TRUE,
                              !.kvTracingEnabled = kvTracingEnabled,
                              !.recordingType = recType,
                              !.connSpan = sp]
          /\ ex' = [ex EXCEPT !.hijacked = sp]
    /\ stOp' = StartTracingCall(recType, kvTracingEnabled, "hijack")
    /\ stRet' = TracingRet(NoErr, <<>>)
    /\ UNCHANGED clock

\* A plausible slip: StartTracing records the flags before it looks for the
\* span of the transaction.
StartTracingFlagsFirst(recType, kvTracingEnabled) ==
    /\ ~st.enabled
    /\ ex.txnState # "NoTxn" /\ ~ex.txnSpan.present
    /\ st' = [st EXCEPT !.enabled = TRUE,
                        !.kvTracingEnabled = kvTracingEnabled,
                        !.recordingType = recType]
    /\ stOp' = StartTracingCall(recType, kvTracingEnabled, "none")
    /\ stRet' = TracingRet(NoTxnSpanErr, <<>>)
    /\ UNCHANGED <<ex, tracer, clock>>

\* StartTracing(recType, kvTracingEnabled), lines 407-447.
StartTracing(recType, kvTracingEnabled) ==
    /\ UNCHANGED clock
    /\ IF st.enabled
       THEN \* We're already tracing. No-op.
            /\ stOp' = StartTracingCall(recType, kvTracingEnabled, "none")
            /\ stRet' = TracingRet(NoErr, <<>>)
            /\ UNCHANGED <<st, ex, tracer>>
       ELSE IF ex.txnState # "NoTxn" /\ ~ex.txnSpan.present
       THEN /\ stOp' = StartTracingCall(recType, kvTracingEnabled, "none")
            /\ stRet' = TracingRet(NoTxnSpanErr, <<>>)
            /\ UNCHANGED <<st, ex, tracer>>
       ELSE /\ Len(tracer) < MaxTracerSpans
            /\ LET inTxn == ex.txnState # "NoTxn"
                   tr1 == IF inTxn THEN StartRecording(tracer, ex.txnSpan) ELSE tracer
                   sp == SpanRef(Len(tr1) + 1)
               IN /\ \E id \in NewSpanIds(tr1) :
                        tracer' = StartRecording(StartSpan(tr1, id, ex.connCtxSpan, clock), sp)
                  /\ st' = [st EXCEPT !.firstTxnSpan = IF inTxn THEN ex.txnSpan ELSE @,
                                      !.enabled = TRUE,
                                      !.kvTracingEnabled = kvTracingEnabled,
                                      !.recordingType = recType,
                                      !.connSpan = sp]
                  /\ ex' = [ex EXCEPT !.hijacked = sp]
            /\ stOp' = StartTracingCall(recType, kvTracingEnabled, "hijack")
            /\ stRet' = TracingRet(NoErr, <<>>)

\* A plausible slip: StopTracing stops the recording before it collects it.
StopTracingCollectsLate ==
    /\ stOp' = StopTracingCall(IF st.enabled THEN "unhijack" ELSE "none")
    /\ UNCHANGED clock
    /\ IF ~st.enabled
       THEN /\ stRet' = TracingRet(NoErr, <<>>)
            /\ UNCHANGED <<st, ex, tracer>>
       ELSE LET tr1 == IF st.firstTxnSpan.present
                       THEN StopRecording(tracer, st.firstTxnSpan) ELSE tracer
                tr2 == StopRecording(Finish(tr1, st.connSpan, clock), st.connSpan)
                res == generateSessionTraceVTable(collectSpans(tr2, st))
            IN /\ tracer' = tr2
               /\ ex' = [ex EXCEPT !.hijacked = NoSpan]
               /\ st' = [st EXCEPT !.enabled = FALSE, !.lastRecording = res.rows]
               /\ stRet' = TracingRet(res.err, <<>>)

\* A plausible slip: StopTracing reduces first and gives up on an error,
\* before it has flipped the flag and restored the connection context.
StopTracingReducesFirst ==
    /\ st.enabled
    /\ LET res == generateSessionTraceVTable(
                      collectSpans(Finish(tracer, st.connSpan, clock), st))
       IN /\ res.err # NoErr
          /\ stRet' = TracingRet(res.err, <<>>)
    /\ stOp' = StopTracingCall("none")
    /\ UNCHANGED <<st, ex, tracer, clock>>

\* A plausible slip: StopTracing leaves the connection context hijacked.
StopTracingKeepsHijack ==
    /\ UNCHANGED <<clock, ex>>
    /\ stOp' = StopTracingCall("none")
    /\ IF ~st.enabled
       THEN /\ stRet' = TracingRet(NoErr, <<>>)
            /\ UNCHANGED <<st, tracer>>
       ELSE LET txnRec == IF st.firstTxnSpan.present
                          THEN GetRecording(tracer, st.firstTxnSpan) ELSE <<>>
                tr1 == IF st.firstTxnSpan.present
                       THEN StopRecording(tracer, st.firstTxnSpan) ELSE tracer
                tr2 == Finish(tr1, st.connSpan, clock)
                res == generateSessionTraceVTable(txnRec \o GetRecording(tr2, st.connSpan))
            IN /\ tracer' = StopRecording(tr2, st.connSpan)
               /\ st' = [st EXCEPT !.enabled = FALSE, !.lastRecording = res.rows]
               /\ stRet' = TracingRet(res.err, <<>>)

\* StopTracing(), lines 451-475.
StopTracing ==
    /\ UNCHANGED clock
    /\ IF ~st.enabled
       THEN \* We're not currently tracing. No-op.
            /\ stOp' = StopTracingCall("none")
            /\ stRet' = TracingRet(NoErr, <<>>)
            /\ UNCHANGED <<st, ex, tracer>>
       ELSE LET txnRec == IF st.firstTxnSpan.present
                          THEN GetRecording(tracer, st.firstTxnSpan) ELSE <<>>
                tr1 == IF st.firstTxnSpan.present
                       THEN StopRecording(tracer, st.firstTxnSpan) ELSE tracer
                tr2 == Finish(tr1, st.connSpan, clock)
                recorded == txnRec \o GetRecording(tr2, st.connSpan)
                res == generateSessionTraceVTable(recorded)
            IN /\ tracer' = StopRecording(tr2, st.connSpan)
               /\ ex' = [ex EXCEPT !.hijacked = NoSpan]
               /\ st' = [st EXCEPT !.enabled = FALSE, !.lastRecording = res.rows]
               /\ stOp' = StopTracingCall("unhijack")
               /\ stRet' = TracingRet(res.err, <<>>)

\* getRecording(), lines 376-388.
getRecording ==
    /\ stOp' = [op |-> "getRecording"]
    /\ stRet' = IF ~st.enabled THEN TracingRet(NoErr, st.lastRecording)
                ELSE LET res == generateSessionTraceVTable(collectSpans(tracer, st))
                     IN TracingRet(res.err, res.rows)
    /\ UNCHANGED <<st, ex, tracer, clock>>

\* ---- The session around the controller.
\* The span of the context statements run in: the transaction's if one is
\* open and has a span, else the span the connection context is hijacked
\* with, else the connection's own.
CurrentSpan ==
    IF ex.txnState # "NoTxn" THEN ex.txnSpan
    ELSE IF ex.hijacked.present THEN ex.hijacked
    ELSE ex.connCtxSpan

\* The connection's context "generally does not have a span" (lines 399-400);
\* this is the server having opened the connection with a span in it.
ConnCtxHasSpan ==
    /\ stOp.op = "init"
    /\ tracer' = <<TracerSpan(1, 0, clock)>>
    /\ ex' = [ex EXCEPT !.connCtxSpan = SpanRef(1)]
    /\ stOp' = [op |-> "ConnCtxHasSpan"]
    /\ stRet' = TracingRet(NoErr, <<>>)
    /\ UNCHANGED <<st, clock>>

\* A transaction begins; its context carries a new span (a child of the
\* connection context's span) or, for a collaborator breaking its contract,
\* no span at all.
BeginTxn(withSpan) ==
    /\ ex.txnState = "NoTxn"
    /\ IF withSpan
       THEN /\ Len(tracer) < MaxTracerSpans
            /\ \E id \in NewSpanIds(tracer) :
                  tracer' = StartSpan(tracer, id, CurrentSpan, clock)
            /\ ex' = [ex EXCEPT !.txnState = "Open", !.txnSpan = SpanRef(Len(tracer) + 1)]
       ELSE /\ ex' = [ex EXCEPT !.txnState = "Open", !.txnSpan = NoSpan]
            /\ UNCHANGED tracer
    /\ stOp' = [op |-> "BeginTxn"]
    /\ stRet' = TracingRet(NoErr, <<>>)
    /\ UNCHANGED <<st, clock>>

\* The transaction ends and its span, if any, is finished.
EndTxn ==
    /\ ex.txnState # "NoTxn"
    /\ tracer' = IF ex.txnSpan.present THEN Finish(tracer, ex.txnSpan, clock) ELSE tracer
    /\ ex' = [ex EXCEPT !.txnState = "NoTxn", !.txnSpan = NoSpan]
    /\ stOp' = [op |-> "EndTxn"]
    /\ stRet' = TracingRet(NoErr, <<>>)
    /\ UNCHANGED <<st, clock>>

\* A statement logs an event to the span of its context, which keeps it if it
\* is recording.
LogEvent ==
    /\ CurrentSpan.present
    /\ tracer[CurrentSpan.id].isRecording
    /\ TotalLogs(tracer) < MaxTracerLogs
    /\ tracer' = [tracer EXCEPT ![CurrentSpan.id].Logs =
                      Append(@, LogRecord(clock, Len(@) + 1))]
    /\ stOp' = [op |-> "LogEvent"]
    /\ stRet' = TracingRet(NoErr, <<>>)
    /\ UNCHANGED <<st, ex, clock>>

\* Time passes.
Tick ==
    /\ clock < MaxClock
    /\ clock' = clock + 1
    /\ stOp' = [op |-> "Tick"]
    /\ stRet' = TracingRet(NoErr, <<>>)
    /\ UNCHANGED <<st, ex, tracer>>

TracingNext ==
    \/ \E recType \in RecordingTypes, kv \in BOOLEAN : StartTracing(recType, kv)
    \/ StopTracing
    \/ getRecording
    \/ \E withSpan \in BOOLEAN : BeginTxn(withSpan)
    \/ EndTxn
    \/ LogEvent
    \/ Tick
    \/ ConnCtxHasSpan

C10_WitnessStopIdle ==
    /\ ~st.enabled
    /\ stOp.op = "StopTracing"
    /\ st.lastRecording # <<>>
    /\ ~ex.hijacked.present
    /\ \A k \in 1..Len(tracer) : ~tracer[k].isRecording \/ tracer[k].group # st.connSpan.id

\* ---------------------------------------------------------------------------
\* C11.  A StopTracing issued while recording leaves the controller idle, with
\* recording stopped on the captured transaction span (if any) and on the
\* connection span and the connection context restored; it stores the rows of
\* the reduction of the spans collected from those two spans at that moment
\* (the connection span finished), replacing the earlier snapshot; an idle
\* getRecording returns the stored snapshot, and nothing but such a stop
\* changes it.
C11_StopStoresReduction ==
    [][/\ (st.enabled /\ stOp'.op = "StopTracing") =>
             LET collected == collectSpans(Finish(tracer, st.connSpan, clock), st)
             IN /\ ~st'.enabled
                /\ st.firstTxnSpan.present => ~tracer'[st.firstTxnSpan.id].isRecording
                /\ ~tracer'[st.connSpan.id].isRecording
                /\ ~ex'.hijacked.present
                /\ st'.lastRecording = generateSessionTraceVTable(collected).rows
       /\ (~st.enabled /\ stOp'.op = "getRecording") =>
             stRet' = TracingRet(NoErr, st.lastRecording)
       /\ (st'.lastRecording # st.lastRecording) =>
             (st.enabled /\ stOp'.op = "StopTracing")]_vars

\* Witness: after a stop that collected from a transaction span and from the
\* connection span, an idle getRecording returned the stored rows, among them
\* a log row.
C11_Witness ==
    /\ ~st.enabled
    /\ stOp.op = "getRecording"
    /\ st.firstTxnSpan.present
    /\ stRet.rows = st.lastRecording
    /\ \E k \in 1..Len(stRet.rows) : stRet.rows[k].span_idx = 1
    /\ \E k \in 1..Len(stRet.rows) : stRet.rows[k].message_idx = 1

\* ---------------------------------------------------------------------------
\* C12.  StartTracing issued while idle, with a transaction active that
\* exposes no span, fails with the internal error and changes nothing: the
\* controller stays idle, mode and kv flag are not recorded, no span is
\* captured or created, and the connection context is not hijacked.
C12_NoTxnSpanFailsCleanly ==
    [][(/\ ~st.enabled
        /\ ex.txnState # "NoTxn" /\ ~ex.txnSpan.present
        /\ stOp'.op = "StartTracing") =>
           /\ stRet'.err = NoTxnSpanErr
           /\ UNCHANGED <<st, ex, tracer, clock>>]_vars

\* Witness: StartTracing has just failed that way.
C12_Witness ==
    /\ stOp.op = "StartTracing"
    /\ stRet.err = NoTxnSpanErr
    /\ ~st.enabled
    /\ ex.txnState # "NoTxn" /\ ~ex.txnSpan.present
    /\ ~ex.hijacked.present

\* ---------------------------------------------------------------------------
\* C13.  A reduction failure never yields partial output: a getRecording whose
\* reduction fails returns the error and no rows, and a StopTracing whose
\* reduction fails returns the error to its caller, leaves the controller
\* idle with the connection context restored, and stores a snapshot without
\* any row.
C13_FailedReductionYieldsNoRows ==
    [][/\ (stOp'.op = "getRecording" /\ stRet'.err # NoErr) => stRet'.rows = <<>>
       /\ (st.enabled /\ stOp'.op = "StopTracing") =>
             LET res == generateSessionTraceVTable(
                            collectSpans(Finish(tracer, st.connSpan, clock), st))
             IN res.err # NoErr =>
                  /\ stRet'.err = res.err
                  /\ ~st'.enabled
                  /\ ~ex'.hijacked.present
                  /\ st'.lastRecording = <<>>]_vars

\* Witness: a StopTracing has just returned a duplicate-span error (two spans
\* of the recording drew the same id).
C13_Witness ==
    /\ stOp.op = "StopTracing"
    /\ stRet.err.kind = "duplicate span"
    /\ ~st.enabled
    /\ ~ex.hijacked.present
    /\ st.lastRecording = <<>>

\* Witness of the other half: a getRecording while recording has failed.
C13_WitnessGetRecording ==
    /\ stOp.op = "getRecording"
    /\ st.enabled
    /\ stRet.err.kind = "duplicate span"
    /\ stRet.rows = <<>>

\* ---------------------------------------------------------------------------
\* C19.  Whenever tracing is started while the session has no active
\* transaction, the controller holds no transaction-span reference for that
\* cycle, whatever start/stop cycles came before.
StartedOutsideTxn == ~st.enabled /\ st'.enabled /\ ex.txnState = "NoTxn"
C19_NoTxnSpanWhenStartedOutsideTxn ==
    [][StartedOutsideTxn => ~st'.firstTxnSpan.present]_vars

\* What does hold: the reference such a start leaves in place is the one of
\* an earlier cycle, whose StopTracing stopped its recording, so that
\* collecting from it yields nothing; and a start inside a transaction
\* captures the span of that transaction.
C19_StaleTxnSpanIsNotRecording ==
    [][/\ (StartedOutsideTxn /\ st'.firstTxnSpan.present) =>
             /\ st'.firstTxnSpan = st.firstTxnSpan
             /\ ~tracer'[st'.firstTxnSpan.id].isRecording
       /\ (~st.enabled /\ st'.enabled /\ ex.txnState # "NoTxn") =>
             st'.firstTxnSpan = ex.txnSpan]_vars

\* ---------------------------------------------------------------------------
\* C21.  Over any sequence of StartTracing and StopTracing calls the
\* connection context is hijacked exactly when the controller is recording: a
\* StartTracing that fails or is a no-op makes no hijack call, a StopTracing
\* that is a no-op makes no unhijack call, and the hijack and unhijack calls
\* alternate strictly, the first being a hijack (a hijack is only made on a
\* context that is not hijacked, an unhijack only on a hijacked one, and
\* nothing else hijacks or restores the context).
C21_HijackedExactlyWhenRecording ==
    /\ (ex.hijacked.present <=> st.enabled)
    /\ [][/\ ex'.hijacked.present <=> st'.enabled
          /\ stOp'.op = "StartTracing" =>
                /\ stOp'.ctx \in {"hijack", "none"}
                /\ stOp'.ctx = "hijack" <=> (~st.enabled /\ stRet'.err = NoErr)
                /\ stOp'.ctx = "hijack" => (~ex.hijacked.present /\ ex'.hijacked.present)
                /\ stOp'.ctx = "none" => ex'.hijacked = ex.hijacked
          /\ stOp'.op = "StopTracing" =>
                /\ stOp'.ctx \in {"unhijack", "none"}
                /\ stOp'.ctx = "unhijack" <=> st.enabled
                /\ stOp'.ctx = "unhijack" => (ex.hijacked.present /\ ~ex'.hijacked.present)
                /\ stOp'.ctx = "none" => ex'.hijacked = ex.hijacked
          /\ stOp'.op \notin {"StartTracing", "StopTracing"} =>
                ex'.hijacked = ex.hijacked]_vars

\* Witness: the second cycle has begun; a StartTracing has just hijacked the
\* context again after the stop of an earlier cycle restored it.
C21_Witness ==
    /\ stOp.op = "StartTracing"
    /\ stOp.ctx = "hijack"
    /\ st.enabled
    /\ ex.hijacked = st.connSpan
    /\ st.lastRecording # <<>>

\* ===========================================================================
\* StartTracing and StopTracing statement by statement, with getRecording
\* running on another thread.  SessionTracing has no lock: the fields are read
\* and written as the statements come.
\* ===========================================================================

\* cycle counts the assignments st.enabled = true; connCycle is the cycle in
\* which st.connSpan was assigned and snapCycle the one whose StopTracing
\* assigned st.lastRecording (0: never assigned).
ThreadsInit ==
    /\ thr = [pc |-> "idle", recType |-> NoRecording, kv |-> FALSE, spans |-> <<>>,
              cycle |-> 0, connCycle |-> 0, snapCycle |-> 0]
    /\ rd = [pc |-> "idle", sawEnabled |-> FALSE, cycleSeen |-> 0, cycleRead |-> 0,
             ret |-> TracingRet(NoErr, <<>>)]

\* StartTracing, lines 408-421: the test of st.enabled and the recording of
\* the transaction's span.
startCall(recType, kvTracingEnabled) ==
    /\ thr.pc = "idle"
    /\ stOp' = [op |-> "StartTracing", recType |-> recType, kv |-> kvTracingEnabled]
    /\ UNCHANGED <<ex, clock, rd>>
    /\ IF st.enabled
       THEN /\ stRet' = TracingRet(NoErr, <<>>)
            /\ UNCHANGED <<st, tracer, thr>>
       ELSE IF ex.txnState # "NoTxn" /\ ~ex.txnSpan.present
       THEN /\ stRet' = TracingRet(NoTxnSpanErr, <<>>)
            /\ UNCHANGED <<st, tracer, thr>>
       ELSE /\ Len(tracer) < MaxTracerSpans
            /\ IF ex.txnState # "NoTxn"
               THEN /\ tracer' = StartRecording(tracer, ex.txnSpan)
                    /\ st' = [st EXCEPT !.firstTxnSpan = ex.txnSpan]
               ELSE UNCHANGED <<st, tracer>>
            /\ thr' = [thr EXCEPT !.pc = "start flags", !.recType = recType,
                                  !.kv = kvTracingEnabled]
            /\ UNCHANGED stRet

\* Lines 423-425.
startFlags ==
    /\ thr.pc = "start flags"
    /\ st' = [st EXCEPT !.enabled = TRUE, !.kvTracingEnabled = thr.kv,
                        !.recordingType = thr.recType]
    /\ thr' = [thr EXCEPT !.pc = "start span", !.cycle = @ + 1]
    /\ UNCHANGED <<ex, tracer, clock, stOp, stRet, rd>>

\* Lines 429-446: the connection span is created and recorded, st.connSpan
\* assigned, the connection context hijacked, nil returned.
startSpan ==
    /\ thr.pc = "start span"
    /\ LET sp == SpanRef(Len(tracer) + 1)
       IN /\ \E id \in NewSpanIds(tracer) :
                tracer' = StartRecording(StartSpan(tracer, id, ex.connCtxSpan, clock), sp)
          /\ st' = [st EXCEPT !.connSpan = sp]
          /\ ex' = [ex EXCEPT !.hijacked = sp]
    /\ thr' = [thr EXCEPT !.pc = "idle", !.connCycle = thr.cycle]
    /\ stRet' = TracingRet(NoErr, <<>>)
    /\ UNCHANGED <<clock, stOp, rd>>

\* StopTracing, lines 452-456: the test of st.enabled and st.enabled = false.
stopCall ==
    /\ thr.pc = "idle"
    /\ stOp' = [op |-> "StopTracing"]
    /\ UNCHANGED <<ex, tracer, clock, rd>>
    /\ IF ~st.enabled
       THEN /\ stRet' = TracingRet(NoErr, <<>>)
            /\ UNCHANGED <<st, thr>>
       ELSE /\ st' = [st EXCEPT !.enabled = FALSE]
            /\ thr' = [thr EXCEPT !.pc = "stop collect"]
            /\ UNCHANGED stRet

\* Lines 458-470: the recordings are collected and stopped and the
\* connection context restored.
stopCollect ==
    /\ thr.pc = "stop collect"
    /\ LET txnRec == IF st.firstTxnSpan.present
                     THEN GetRecording(tracer, st.firstTxnSpan) ELSE <<>>
           tr1 == IF st.firstTxnSpan.present
                  THEN StopRecording(tracer, st.firstTxnSpan) ELSE tracer
           tr2 == Finish(tr1, st.connSpan, clock)
       IN /\ tracer' = StopRecording(tr2, st.connSpan)
          /\ thr' = [thr EXCEPT !.pc = "stop reduce",
                                !.spans = txnRec \o GetRecording(tr2, st.connSpan)]
    /\ ex' = [ex EXCEPT !.hijacked = NoSpan]
    /\ UNCHANGED <<st, clock, stOp, stRet, rd>>

\* Lines 472-474: st.lastRecording is assigned and the error returned.
stopReduce ==
    /\ thr.pc = "stop reduce"
    /\ LET res == generateSessionTraceVTable(thr.spans)
       IN /\ st' = [st EXCEPT !.lastRecording = res.rows]
          /\ stRet' = TracingRet(res.err, <<>>)
    /\ thr' = [thr EXCEPT !.pc = "idle", !.spans = <<>>, !.snapCycle = thr.cycle]
    /\ UNCHANGED <<ex, tracer, clock, stOp, rd>>

\* getRecording on the other thread, line 377: st.enabled is read.
readEnabled ==
    /\ rd.pc = "idle"
    /\ rd' = [rd EXCEPT !.pc = IF st.enabled THEN "read spans" ELSE "read last",
                        !.sawEnabled = st.enabled,
                        !.cycleSeen = thr.cycle]
    /\ UNCHANGED <<trVars, thr>>

\* Line 378: st.lastRecording is read and returned.
readLast ==
    /\ rd.pc = "read last"
    /\ rd' = [rd EXCEPT !.pc = "done", !.cycleRead = thr.snapCycle,
                        !.ret = TracingRet(NoErr, st.lastRecording)]
    /\ UNCHANGED <<trVars, thr>>

\* Lines 381-387: st.firstTxnSpan and st.connSpan are read and their
\* recordings reduced; GetRecording of a nil st.connSpan panics.
readSpans ==
    /\ rd.pc = "read spans"
    /\ rd' = [rd EXCEPT
                 !.pc = "done",
                 !.cycleRead = thr.connCycle,
                 !.ret = IF ~st.connSpan.present
                         THEN TracingRet(TracingErr("panic: nil span"), <<>>)
                         ELSE LET res == generateSessionTraceVTable(collectSpans(tracer, st))
                              IN TracingRet(res.err, res.rows)]
    /\ UNCHANGED <<trVars, thr>>

\* The other thread is ready for its next getRecording.
readAgain ==
    /\ rd.pc = "done"
    /\ rd' = [rd EXCEPT !.pc = "idle"]
    /\ UNCHANGED <<trVars, thr>>

\* Between its calls of StartTracing and StopTracing the session's thread
\* begins and ends transactions.
ThreadsNext ==
    \/ \E recType \in RecordingTypes, kv \in BOOLEAN : startCall(recType, kv)
    \/ startFlags
    \/ startSpan
    \/ stopCall
    \/ stopCollect
    \/ stopReduce
    \/ readEnabled
    \/ readLast
    \/ readSpans
    \/ readAgain
    \/ thr.pc = "idle" /\ (\E withSpan \in BOOLEAN : BeginTxn(withSpan)) /\ UNCHANGED thrVars
    \/ thr.pc = "idle" /\ EndTxn /\ UNCHANGED thrVars

\* ---------------------------------------------------------------------------
\* C20.  A getRecording running on another thread beside a StartTracing or a
\* StopTracing observes a consistent state: having seen the controller
\* recording it reads the connection span of that cycle (or of a later one),
\* and having seen it idle it returns the snapshot of the last stop that had
\* begun (or of a later one), never the snapshot of an earlier cycle.
C20_ConcurrentReaderSeesOneCycle ==
    rd.pc = "done" => rd.cycleRead >= rd.cycleSeen

\* ===========================================================================
\* The schema-change runner: schemaChangerCollection.
\* ===========================================================================

\* What one call of sc.exec ends in: no error, sqlbase.ErrDescriptorNotFound,
\* an error isPermanentSchemaChangeError accepts, or any other (retryable).
Outcomes == {"nil", "ErrDescriptorNotFound", "permanent", "retryable"}
Terminal == Outcomes \ {"retryable"}

\* The error values of a run; the permanent error of a job is its own.
NoSchemaErr == [kind |-> "nil", job |-> 0]
PermanentErr(job) == [kind |-> "permanent", job |-> job]

\* The number of sc.exec calls made for the job in the run.
Attempts(log, job, run) ==
    Cardinality({k \in 1..Len(log) : log[k].job = job /\ log[k].run = run})

SchemaInit ==
    /\ scc = [schemaChangers |-> <<>>]
    /\ scRun = [pc |-> "idle", idx |-> 0, round |-> 0, firstError |-> NoSchemaErr,
                no |-> 0, queued |-> 0]
    /\ scLog = <<>>
    /\ scRet = [returned |-> FALSE, err |-> NoSchemaErr]

\* queueSchemaChanger (lines 255-257), called by the statements of a
\* transaction, before the run that follows it.
queueSchemaChanger ==
    /\ scRun.pc = "idle"
    /\ scRun.queued < MaxJobs
    /\ scc' = [scc EXCEPT !.schemaChangers = Append(@, scRun.queued + 1)]
    /\ scRun' = [scRun EXCEPT !.queued = @ + 1]
    /\ scRet' = [scRet EXCEPT !.returned = FALSE]
    /\ UNCHANGED scLog

\* execSchemaChanges is called (lines 268-276): firstError is nil and the
\* range loop is at the first schema changer.
execSchemaChanges ==
    /\ scRun.pc = "idle"
    /\ scRun.no < MaxRuns
    /\ scRun' = [scRun EXCEPT !.pc = "running", !.idx = 1, !.round = 0,
                              !.firstError = NoSchemaErr, !.no = @ + 1]
    /\ UNCHANGED <<scc, scLog, scRet>>

\* A plausible slip: every permanent error replaces the recorded one.
recordLastError(firstError, err) == err

\* if firstError == nil { firstError = err } (lines 294-296).
recordFirstError(firstError, err) == IF firstError = NoSchemaErr THEN err ELSE firstError

\* A plausible slip: a retryable error ends the retry loop like the others.
retriesNever(outcome) == FALSE

\* A plausible slip: a missing descriptor is retried like a retryable error.
retriesMissingDescriptor(outcome) == outcome \in {"retryable", "ErrDescriptorNotFound"}

\* A plausible slip: a permanent error is retried like any other error.
retriesEveryError(outcome) == outcome \in {"retryable", "permanent"}

\* Whether the retry loop goes round again after this outcome: only the last
\* else branch continues (lines 297-300), every other path breaks (line 302).
retries(outcome) == outcome = "retryable"

\* r.Next() of the retry loop (line 281) after so many attempts: the options
\* are base.DefaultRetryOptions(), which set no limit and no closer, so there
\* is always a next round (after a backoff).
rNext(attempts) == TRUE

\* One round of the retry loop (lines 281-303): sc.exec is called for the
\* schema changer at idx and ends in the outcome.  After a retryable error
\* the loop goes round again: scRun.round, the parity of the rounds made for
\* this schema changer, flips.  The log holds every call that ended the retry
\* loop and the first MaxAttempts - 1 retryable calls of each schema changer;
\* the retryable calls after those are made and not logged.
exec(outcome) ==
    /\ scRun.pc = "running"
    /\ scRun.idx <= Len(scc.schemaChangers)
    /\ LET job == scc.schemaChangers[scRun.idx]
           logged == Attempts(scLog, job, scRun.no)
           again == retries(outcome) /\ rNext(logged + 1)
       IN /\ scLog' = IF again /\ logged + 1 >= MaxAttempts THEN scLog
                      ELSE Append(scLog, [job |-> job, outcome |-> outcome, run |-> scRun.no])
          /\ scRun' = IF again THEN [scRun EXCEPT !.round = 1 - @]
                      ELSE [scRun EXCEPT
                              !.idx = @ + 1,
                              !.round = 0,
                              !.firstError = IF outcome = "permanent"
                                             THEN recordFirstError(@, PermanentErr(job))
                                             ELSE @]
    /\ UNCHANGED <<scc, scRet>>

\* A plausible slip: the run returns without clearing the queue.
execSchemaChangesReturnKeepsQueue ==
    /\ scRun.pc = "running"
    /\ scRun.idx > Len(scc.schemaChangers)
    /\ scRet' = [returned |-> TRUE, err |-> scRun.firstError]
    /\ scRun' = [scRun EXCEPT !.pc = "idle", !.idx = 0]
    /\ UNCHANGED <<scc, scLog>>

\* The range loop is over: the queue is cleared and firstError returned
\* (lines 305-306).
execSchemaChangesReturn ==
    /\ scRun.pc = "running"
    /\ scRun.idx > Len(scc.schemaChangers)
    /\ scc' = [scc EXCEPT !.schemaChangers = <<>>]
    /\ scRet' = [returned |-> TRUE, err |-> scRun.firstError]
    /\ scRun' = [scRun EXCEPT !.pc = "idle", !.idx = 0]
    /\ UNCHANGED scLog

SchemaNext ==
    \/ queueSchemaChanger
    \/ execSchemaChanges
    \/ \E outcome \in Outcomes : exec(outcome)
    \/ execSchemaChangesReturn

\* ---- Vocabulary of the runner's properties.  Schema changers are numbered
\* in the order they are queued, so queue order is the order of the numbers.
JustReturned == scRet.returned /\ scRun.pc = "idle"
EndedIn(job, run, outcomes) ==
    \E k \in 1..Len(scLog) :
        scLog[k].job = job /\ scLog[k].run = run /\ scLog[k].outcome \in outcomes
PermanentJobs(run) == {job \in 1..scRun.queued : EndedIn(job, run, {"permanent"})}
Earliest(jobs) == CHOOSE j \in jobs : \A i \in jobs : j <= i

\* ---------------------------------------------------------------------------
\* C14.  A run returns the permanent error of the earliest schema changer in
\* queue order that ended with a permanent error, and no error exactly when
\* none did: a later permanent error never replaces an earlier one, a missing
\* descriptor is never returned, and the schema changers queued after a
\* permanently failed one have been executed all the same.
C14_FirstPermanentErrorReturned ==
    JustReturned =>
        /\ scRet.err = IF PermanentJobs(scRun.no) = {} THEN NoSchemaErr
                       ELSE PermanentErr(Earliest(PermanentJobs(scRun.no)))
        /\ \A job \in 1..scRun.queued : \E run \in 1..scRun.no : EndedIn(job, run, Terminal)

\* Witness: in one run the first schema changer found its descriptor missing
\* and the second and the third failed permanently; the error of the second
\* was returned.
C14_Witness ==
    /\ JustReturned
    /\ EndedIn(1, scRun.no, {"ErrDescriptorNotFound"})
    /\ EndedIn(2, scRun.no, {"permanent"})
    /\ EndedIn(3, scRun.no, {"permanent"})
    /\ scRet.err = PermanentErr(2)

\* ---------------------------------------------------------------------------
\* C15.  Within one run, a schema changer whose attempt ended in success, in a
\* missing descriptor or in a permanent error is never attempted again.
C15_TerminalAttemptIsTheLast ==
    \A k, l \in 1..Len(scLog) :
        (k < l /\ scLog[k].job = scLog[l].job /\ scLog[k].run = scLog[l].run)
            => scLog[k].outcome \notin Terminal

\* Witness: a run of three schema changers has returned; the second failed
\* permanently at its only attempt, the third was retried.
C15_Witness ==
    /\ JustReturned
    /\ scRet.err = PermanentErr(2)
    /\ Attempts(scLog, 1, scRun.no) = 1
    /\ Attempts(scLog, 2, scRun.no) = 1
    /\ Attempts(scLog, 3, scRun.no) = 2

\* ---------------------------------------------------------------------------
\* C16.  Whenever a run returns, with or without an error, the queue is
\* empty; a run that follows immediately has nothing to attempt and returns
\* no error; and no schema changer is executed by two different runs.
C16_QueueClearedByEveryRun ==
    /\ scRet.returned => scc.schemaChangers = <<>>
    /\ (JustReturned /\ \A k \in 1..Len(scLog) : scLog[k].run # scRun.no)
           => scRet.err = NoSchemaErr
    /\ \A k, l \in 1..Len(scLog) : scLog[k].job = scLog[l].job => scLog[k].run = scLog[l].run

\* Witness: a run that returned a permanent error was followed at once by a
\* run that attempted nothing and returned no error.
C16_Witness ==
    /\ JustReturned
    /\ scRun.no = 2
    /\ EndedIn(1, 1, {"permanent"})
    /\ \A k \in 1..Len(scLog) : scLog[k].run = 1
    /\ scRet.err = NoSchemaErr

\* ---------------------------------------------------------------------------
\* C22.  Schema changers are attempted strictly in queue order, one at a
\* time: the attempts start with the first one queued, the first attempt of
\* the next schema changer comes only after an attempt of the current one
\* ended in success, a missing descriptor or a permanent error, and an
\* attempt that failed with a retryable error is followed by an attempt of the
\* same schema changer; until then the run stays on it and does not return.
LastExec == scLog[Len(scLog)]
C22_QueueOrderEachToItsEnd ==
    /\ scLog # <<>> => scLog[1].job = 1
    /\ \A k \in 1..(Len(scLog) - 1) :
          /\ scLog[k].outcome = "retryable" =>
                (scLog[k + 1].job = scLog[k].job /\ scLog[k + 1].run = scLog[k].run)
          /\ scLog[k + 1].job # scLog[k].job =>
                /\ scLog[k].outcome \in Terminal
                /\ scLog[k + 1].job = scLog[k].job + 1
    /\ (scLog # <<>> /\ LastExec.outcome = "retryable") =>
          /\ scRun.pc = "running" /\ scRun.no = LastExec.run
          /\ scRun.idx <= Len(scc.schemaChangers)
          /\ scc.schemaChangers[scRun.idx] = LastExec.job

\* Witness: a run of three schema changers has returned in which the first
\* and the second were retried and ended differently.
C22_Witness ==
    /\ JustReturned
    /\ Len(scLog) = 5
    /\ \A k \in 1..5 : scLog[k].run = scRun.no
    /\ scLog[1].outcome = "retryable" /\ scLog[2].job = 1 /\ scLog[2].outcome = "nil"
    /\ scLog[3].outcome = "retryable" /\ scLog[4].job = 2 /\ scLog[4].outcome = "permanent"
    /\ scLog[5].job = 3

\* ---------------------------------------------------------------------------
\* C23.  If the attempts of every schema changer the run comes to end, sooner
\* or later, in success, a missing descriptor or a permanent error, the run
\* returns, having attempted every schema changer queued.  A schema changer
\* whose attempts never end that way is attempted again and again without
\* limit: the run stays on it for ever, it neither moves on nor returns.
\* (Under SpecSchemaLive: the session's thread keeps running and every call of
\* sc.exec returns.)
OtherVars == <<regVars, redVars, trVars, thrVars>>
OnJob(job) ==
    /\ scRun.pc = "running"
    /\ scRun.idx <= Len(scc.schemaChangers)
    /\ scc.schemaChangers[scRun.idx] = job
Ended(job) == \E run \in 1..MaxRuns : EndedIn(job, run, Terminal)
RunReturned(run) ==
    /\ JustReturned /\ scRun.no = run
    /\ \A job \in 1..scRun.queued : Ended(job)
C23_ReturnsUnlessRetriedForever ==
    /\ (\A job \in 1..MaxJobs : OnJob(job) ~> Ended(job)) =>
          \A run \in 1..MaxRuns :
              (scRun.pc = "running" /\ scRun.no = run) ~> RunReturned(run)
    /\ \A job \in 1..MaxJobs :
          (<>OnJob(job) /\ []~Ended(job)) =>
              /\ <>[]OnJob(job)
              /\ []<><<exec("retryable") /\ UNCHANGED OtherVars>>_vars

\* Witness: the run is on its second schema changer, which has failed with a
\* retryable error more often than the log holds, after the first one ended.
C23_Witness ==
    /\ OnJob(2)
    /\ Ended(1)
    /\ LastExec.job = 2 /\ LastExec.outcome = "retryable"
    /\ Attempts(scLog, 2, scRun.no) = MaxAttempts - 1
    /\ scRun.round = 0

\* Witness of the other half: a run of three schema changers, the first of
\* them retried, has returned.
C23_WitnessReturned ==
    /\ RunReturned(1)
    /\ scRun.queued = 3
    /\ EndedIn(1, 1, {"retryable"})

\* ---------------------------------------------------------------------------
\* C25.  For an input whose span ids are unique and whose parent links form a
\* forest, the reduction succeeds and yields the same rows in whatever order
\* the spans are listed, a child listed before its parent included: the same
\* rows up to the span-index cell, root group by root group.
Forest(ss) ==
    /\ ~HasDuplicateIds(ss)
    /\ \A c \in 1..Len(ss) : c \notin Below(ss, ChildrenOf(ss, c))
Relisted(ss, order) == [k \in 1..Len(ss) |-> ss[order[k]]]
Roots(ss) == {r \in 1..Len(ss) : \A p \in 1..Len(ss) : ss[p].SpanID # ss[r].ParentSpanID}
PositionOf(ss, id) == CHOOSE k \in 1..Len(ss) : ss[k].SpanID = id
\* The rows res holds of the subtree of the span with this id, in order, each
\* with the id of its span in place of the span-index cell.
GroupOf(ss, res, id) ==
    LET sub == {ss[k].SpanID : k \in SubtreeOf(ss, PositionOf(ss, id))}
        keyed == [k \in 1..Len(res.rows) |->
                     [id |-> ss[res.rows[k].span_idx + 1].SpanID,
                      row |-> [res.rows[k] EXCEPT !.span_idx = 0]]]
        InGroup(x) == x.id \in sub
    IN SelectSeq(keyed, InGroup)
C25_SameRowsInAnyOrder ==
    (Reduced /\ Forest(spans)) =>
        /\ redRes.err = NoErr
        /\ \A order \in Orders(1..Len(spans)) :
              LET other == Relisted(spans, order)
                  res == generateSessionTraceVTable(other)
              IN /\ res.err = NoErr
                 /\ \A r \in Roots(spans) :
                       GroupOf(other, res, spans[r].SpanID)
                           = GroupOf(spans, redRes, spans[r].SpanID)

\* ---------------------------------------------------------------------------
\* C26.  A span whose parent is not in the input is a root; in every output
\* the rows of each root's subtree are there, beginning with the root's start
\* row, as one contiguous group, and the groups stand in the order in which
\* their roots are listed in the input, whatever their ids and start times.
GroupEmitted(r) ==
    LET group == RowsOf(SubtreeOf(spans, r))
    IN /\ HasStartRow(r)
       /\ Contiguous(group)
       /\ \A k \in group, k0 \in RowsOf({r}) : redRes.rows[k0].message_idx = 0 => k0 <= k
C26_RootGroupsInInputOrder ==
    Succeeded =>
        /\ \A r \in Roots(spans) : GroupEmitted(r)
        /\ \A r1, r2 \in Roots(spans) : r1 < r2 => BlockBefore(r1, r2)

\* What does hold of every output: the same for the roots whose subtree
\* shares no span id with the rest of the input.
UniqueIn(ss, S) ==
    \A c \in S, e \in 1..Len(ss) : e # c => ss[e].SpanID # ss[c].SpanID
C26_UniqueRootGroupsInInputOrder ==
    Succeeded =>
        LET unique == {r \in Roots(spans) : UniqueIn(spans, SubtreeOf(spans, r))}
        IN /\ \A r \in unique : GroupEmitted(r)
           /\ \A r1, r2 \in unique : r1 < r2 => BlockBefore(r1, r2)

\* ---------------------------------------------------------------------------
\* C27.  The reduction terminates on every input, inputs whose parent links
\* form a cycle included: whenever some span is reachable from itself through
\* parent links, what the reduction returns is a duplicate-span error and no
\* rows.  (Reduce is one step on any input: the recursion of
\* getMessagesForSubtrace is evaluated to its end on each of them, every call
\* that goes on adding a span id to seenSpans.)
Cyclic(ss) == \E c \in 1..Len(ss) : c \in Below(ss, ChildrenOf(ss, c))
C27_CyclesEndInDuplicateSpanError ==
    (Reduced /\ Cyclic(spans)) =>
        /\ redRes.err.kind = "duplicate span"
        /\ redRes.rows = <<>>

\* Witness: an input of a root and two spans that are each other's parent,
\* all ids different, has been reduced to an error.
C27_Witness ==
    /\ Reduced /\ ~HasDuplicateIds(spans)
    /\ redRes.err.kind = "duplicate span"
    /\ \E r, a, b \in 1..Len(spans) :
          /\ r \in Roots(spans)
          /\ a # b
          /\ spans[a].ParentSpanID = spans[b].SpanID
          /\ spans[b].ParentSpanID = spans[a].SpanID

Init == RegistryInit /\ ReduceInit /\ TracingInit /\ ThreadsInit /\ SchemaInit

Next ==
    \/ RegistryNext /\ UNCHANGED <<redVars, trVars, thrVars, scVars>>
    \/ SerializeNext /\ UNCHANGED <<redVars, trVars, thrVars, scVars>>
    \/ ReduceNext /\ UNCHANGED <<regVars, trVars, thrVars, scVars>>
    \/ TracingNext /\ UNCHANGED <<regVars, redVars, thrVars, scVars>>
    \/ ThreadsNext /\ UNCHANGED <<regVars, redVars, scVars>>
    \/ SchemaNext /\ UNCHANGED <<regVars, redVars, trVars, thrVars>>

Spec == Init /\ [][Next]_vars
SpecRegistry ==
    Init /\ [][RegistryNext /\ UNCHANGED <<redVars, trVars, thrVars, scVars>>]_vars
SpecSerialize ==
    Init /\ [][SerializeNext /\ UNCHANGED <<redVars, trVars, thrVars, scVars>>]_vars
SpecReduce ==
    Init /\ [][ReduceNext /\ UNCHANGED <<regVars, trVars, thrVars, scVars>>]_vars
SpecTracing ==
    Init /\ [][TracingNext /\ UNCHANGED <<regVars, redVars, thrVars, scVars>>]_vars
SpecThreads ==
    Init /\ [][ThreadsNext /\ UNCHANGED <<regVars, redVars, scVars>>]_vars
SpecSchema ==
    Init /\ [][SchemaNext /\ UNCHANGED <<regVars, redVars, trVars, thrVars>>]_vars

\* The runner with its thread running on: a call of sc.exec that can be made
\* is made and returns, and a run whose range loop is over returns.
SpecSchemaLive ==
    /\ SpecSchema
    /\ WF_vars((\E outcome \in Outcomes : exec(outcome)) /\ UNCHANGED OtherVars)
    /\ WF_vars(execSchemaChangesReturn /\ UNCHANGED OtherVars)

====
